---------------------------- MODULE Spec2Model ----------------------------
(***************************************************************************)
(* A model of src/npa.py: the symbolic blueprint of the NPA moment matrix. *)
(*                                                                         *)
(* Python strings are sequences of one-character strings, so that          *)
(* str.split, str.join, str.strip, str.count, str.isdigit, int() and the   *)
(* code-point ordering used by sorted() are computed, not assumed.         *)
(***************************************************************************)
EXTENDS Naturals, Sequences, FiniteSets

VARIABLES
    \* simplify_product_advanced, called once and then on its own result
    word,                \* the operator tokens the argument was joined from
    product_str,         \* the argument of the current call
    result,              \* the value returned by the last call
    ncalls,              \* number of calls made
    \* the cancellation loop of one party, against free cancellation
    op_list0,            \* a single-party operator list
    op_list,             \* the loop's op_list
    simplified,          \* the loop's flag
    cur,                 \* the list under arbitrary single cancellations
    nsteps,              \* number of single cancellations made
    \* generate_level_n_set
    base_operators,      \* the list of base operators (also build's)
    level,               \* the integer level
    operator_set,
    current_level_products,
    round,               \* the loop variable of `for _ in range(1, level)`
    lpc,                 \* "call", "loop", "done"
    \* npa_hierarchy_intermediate
    level_str,
    terms,
    term_idx,            \* position of `for term in terms`
    final_operator_set,
    sorted_operator_set,
    moment_matrix_symbolic,
    bpc                  \* "call", "terms", "fill", "done", "raised"

varsReduce == <<word, product_str, result, ncalls>>
varsCancel == <<op_list0, op_list, simplified, cur, nsteps>>
varsLevel == <<level, operator_set, current_level_products, round, lpc>>
varsBuild == <<level_str, terms, term_idx, final_operator_set,
               sorted_operator_set, moment_matrix_symbolic, bpc>>

vars == <<varsReduce, varsCancel, base_operators, varsLevel, varsBuild>>

-----------------------------------------------------------------------------
(* Bounds *)

MaxWordLen == 4        \* tokens in a word given to simplify_product_advanced
MaxPartyLen == 5       \* operators in a single-party list
MaxBase == 3           \* base operators given to generate_level_n_set
MaxLevel == 3          \* the level given to generate_level_n_set
MaxSettings == 2       \* measurement settings of each party in a build
MaxIntTerm == 2        \* the largest integer term of a level spec

-----------------------------------------------------------------------------
(* Python strings *)

\* ord(c) of the characters that occur in the model
CharCode(c) ==
    CASE c = " " -> 32
      [] c = "+" -> 43
      [] c = "0" -> 48
      [] c = "1" -> 49
      [] c = "2" -> 50
      [] c = "3" -> 51
      [] c = "4" -> 52
      [] c = "A" -> 65
      [] c = "B" -> 66
      [] c = "C" -> 67
      [] c = "I" -> 73
      [] c = "Z" -> 90
      [] c = "d" -> 100
      [] c = "S" -> 178      \* U+00B2 SUPERSCRIPT TWO, written "S" here

\* s < t for Python strings: lexicographic on code points, a proper prefix first
RECURSIVE StrLess(_, _)
StrLess(s, t) ==
    IF t = <<>> THEN FALSE
    ELSE IF s = <<>> THEN TRUE
    ELSE IF Head(s) # Head(t) THEN CharCode(Head(s)) < CharCode(Head(t))
    ELSE StrLess(Tail(s), Tail(t))

\* s.split(): the maximal runs of non-whitespace characters
RECURSIVE SplitWs(_, _, _)
SplitWs(s, tok, acc) ==
    IF s = <<>> THEN (IF tok = <<>> THEN acc ELSE Append(acc, tok))
    ELSE IF Head(s) = " "
         THEN SplitWs(Tail(s), <<>>, IF tok = <<>> THEN acc ELSE Append(acc, tok))
         ELSE SplitWs(Tail(s), Append(tok, Head(s)), acc)

Split(s) == SplitWs(s, <<>>, <<>>)

\* sep.join(parts)
RECURSIVE Join(_, _)
Join(parts, sep) ==
    IF parts = <<>> THEN <<>>
    ELSE IF Len(parts) = 1 THEN parts[1]
    ELSE parts[1] \o sep \o Join(Tail(parts), sep)

\* the concatenation of a list of lists
RECURSIVE Flatten(_)
Flatten(lists) ==
    IF lists = <<>> THEN <<>> ELSE Head(lists) \o Flatten(Tail(lists))

IdStr == <<"I", "d">>
Space == <<" ">>

-----------------------------------------------------------------------------
(* simplify_product_advanced *)

\* the keys of party_groups in insertion order: each party at its first operator
RECURSIVE PartyKeys(_, _)
PartyKeys(operators, keys) ==
    IF operators = <<>> THEN keys
    ELSE LET party == Head(operators)[1]
         IN  PartyKeys(Tail(operators),
                       IF \E k \in DOMAIN keys : keys[k] = party
                       THEN keys ELSE Append(keys, party))

\* party_groups[party]: the party's operators in their original relative order
PartyGroup(operators, party) ==
    LET IsOf(op) == op[1] = party IN SelectSeq(operators, IsOf)

\* sorted(party_groups.keys())
RECURSIVE SortedKeysOf(_)
SortedKeysOf(S) ==
    IF S = {} THEN <<>>
    ELSE LET m == CHOOSE x \in S : \A y \in S : CharCode(x) <= CharCode(y)
         IN  <<m>> \o SortedKeysOf(S \ {m})

SortedKeys_unsorted(keys) == keys

SortedKeys(keys) == SortedKeysOf({keys[k] : k \in DOMAIN keys})

\* one pass of the inner while loop from index i, keeping one operator of an
\* equal pair instead of dropping both
RECURSIVE PassFrom_keepone(_, _)
PassFrom_keepone(ops, i) ==
    IF ~(i < Len(ops) + 1) THEN <<>>
    ELSE IF i + 1 < Len(ops) + 1 /\ ops[i] = ops[i + 1]
         THEN <<ops[i]>> \o PassFrom_keepone(ops, i + 2)
         ELSE <<ops[i]>> \o PassFrom_keepone(ops, i + 1)

\* one pass that never compares the last two operators
RECURSIVE PassFrom_shortscan(_, _)
PassFrom_shortscan(ops, i) ==
    IF ~(i < Len(ops) + 1) THEN <<>>
    ELSE IF i + 2 < Len(ops) + 1 /\ ops[i] = ops[i + 1]
         THEN PassFrom_shortscan(ops, i + 2)
         ELSE <<ops[i]>> \o PassFrom_shortscan(ops, i + 1)

Pass_keepone(ops) == PassFrom_keepone(ops, 1)

Pass_shortscan(ops) == PassFrom_shortscan(ops, 1)

\* one pass of the inner while loop (next_op_list), from index i (1-based)
RECURSIVE PassFrom(_, _)
PassFrom(ops, i) ==
    IF ~(i < Len(ops) + 1) THEN <<>>
    ELSE IF i + 1 < Len(ops) + 1 /\ ops[i] = ops[i + 1]
         THEN PassFrom(ops, i + 2)
         ELSE <<ops[i]>> \o PassFrom(ops, i + 1)

Pass(ops) == PassFrom(ops, 1)

\* the outer loop stopped after its first pass
SimplifyParty_once(ops) == IF Len(ops) < 2 THEN ops ELSE Pass(ops)

\* the outer while loop: passes until one removes nothing or fewer than two
\* operators are left
RECURSIVE SimplifyParty(_)
SimplifyParty(ops) ==
    IF Len(ops) < 2 THEN ops
    ELSE LET next_op_list == Pass(ops)
         IN  IF Len(next_op_list) # Len(ops)
             THEN SimplifyParty(next_op_list)
             ELSE next_op_list

simplify_product_advanced(s) ==
    LET NotId(op) == op # IdStr
        operators == SelectSeq(Split(s), NotId)
    IN  IF operators = <<>> THEN IdStr
        ELSE LET keys == SortedKeys(PartyKeys(operators, <<>>))
                 final_ops == Flatten([k \in DOMAIN keys |->
                                  SimplifyParty(PartyGroup(operators, keys[k]))])
             IN  IF final_ops = <<>> THEN IdStr ELSE Join(final_ops, Space)

-----------------------------------------------------------------------------
(* generate_level_n_set *)

Range(f) == {f[i] : i \in DOMAIN f}

\* next_level_products of one round
NextLevelProducts(current, base) ==
    {simplify_product_advanced(op1 \o Space \o op2) :
        op1 \in current, op2 \in Range(base)}

\* operator_set overwritten by a round instead of updated
UpdateOperatorSet_overwrite(set, next) == next

\* operator_set.update(next_level_products)
UpdateOperatorSet(set, next) == set \cup next

\* range(1, level) taken as range(1, level + 1)
InRange_inclusive(r, lvl) == r < lvl + 1

\* r is in range(1, level), for r >= 1
InRange(r, lvl) == r < lvl

\* the rounds r, r+1, ... of `for _ in range(1, level)`
RECURSIVE LevelRounds(_, _, _, _, _)
LevelRounds(base, set, current, r, lvl) ==
    IF ~InRange(r, lvl) THEN set
    ELSE LET next == NextLevelProducts(current, base)
         IN  LevelRounds(base, UpdateOperatorSet(set, next), next, r + 1, lvl)

generate_level_n_set(base, lvl) ==
    IF lvl = 0 THEN {IdStr}
    ELSE LevelRounds(base, {IdStr} \cup Range(base), Range(base), 1, lvl)

-----------------------------------------------------------------------------
(* generate_string_term_set *)

\* product(*operator_pools)
RECURSIVE Product(_)
Product(pools) ==
    IF pools = <<>> THEN {<<>>}
    ELSE {<<op>> \o rest : op \in Range(Head(pools)), rest \in Product(Tail(pools))}

TermProducts(pools) ==
    {simplify_product_advanced(Join(combo, Space)) : combo \in Product(pools)}

\* a letter without a pool skipped instead of ending the call
generate_string_term_set_skip(by_party, term_str) ==
    LET Known(c) == c \in DOMAIN by_party
        known == SelectSeq(term_str, Known)
    IN  TermProducts([i \in DOMAIN known |-> by_party[known[i]]])

generate_string_term_set(by_party, term_str) ==
    IF \E i \in DOMAIN term_str : term_str[i] \notin DOMAIN by_party
    THEN {}
    ELSE TermProducts([i \in DOMAIN term_str |-> by_party[term_str[i]]])

-----------------------------------------------------------------------------
(* npa_hierarchy_intermediate *)

\* base_operators_by_party
ByParty(base) ==
    [party \in {base[i][1] : i \in DOMAIN base} |-> PartyGroup(base, party)]

\* s.split('+'): the pieces between the separators, empty ones kept
RECURSIVE SplitPlus(_, _, _)
SplitPlus(s, piece, acc) ==
    IF s = <<>> THEN Append(acc, piece)
    ELSE IF Head(s) = "+"
         THEN SplitPlus(Tail(s), <<>>, Append(acc, piece))
         ELSE SplitPlus(Tail(s), Append(piece, Head(s)), acc)

\* s.strip()
RECURSIVE Strip(_)
Strip(s) ==
    IF s = <<>> THEN s
    ELSE IF Head(s) = " " THEN Strip(Tail(s))
    ELSE IF s[Len(s)] = " " THEN Strip(SubSeq(s, 1, Len(s) - 1))
    ELSE s

ParseTerms(spec) ==
    LET pieces == SplitPlus(spec, <<>>, <<>>)
    IN  [i \in DOMAIN pieces |-> Strip(pieces[i])]

\* the characters int() reads as decimal digits
DecimalValue(c) ==
    CASE c = "0" -> 0 [] c = "1" -> 1 [] c = "2" -> 2 [] c = "3" -> 3 [] c = "4" -> 4

DecimalChars == {"0", "1", "2", "3", "4"}

\* U+00B2: str.isdigit() is true of it, and int() raises ValueError on it
SuperscriptTwo == "S"

\* term.isdigit()
IsDigit(term) ==
    /\ term # <<>>
    /\ \A i \in DOMAIN term : term[i] \in DecimalChars \cup {SuperscriptTwo}

\* int(term) raises ValueError
IntRaises(term) == \E i \in DOMAIN term : term[i] \notin DecimalChars

\* int(term)
RECURSIVE IntOf(_)
IntOf(term) ==
    IF term = <<>> THEN 0
    ELSE 10 * IntOf(SubSeq(term, 1, Len(term) - 1)) + DecimalValue(term[Len(term)])

\* what one iteration of `for term in terms` adds to final_operator_set
TermContribution(base, term) ==
    IF IsDigit(term)
    THEN generate_level_n_set(base, IntOf(term))
    ELSE {IdStr} \cup generate_string_term_set(ByParty(base), term)

\* s.count(' ')
CountSpaces(s) == Cardinality({i \in DOMAIN s : s[i] = " "})

\* the first component of the sort key, without the special case of "Id"
SortKey_noid(s) == CountSpaces(s) + 1

\* the first component of the sort key
SortKey(s) == CountSpaces(s) + (IF s # IdStr THEN 1 ELSE 0)

\* the key of s is below the key of t
KeyLess(s, t) ==
    \/ SortKey(s) < SortKey(t)
    \/ SortKey(s) = SortKey(t) /\ StrLess(s, t)

\* the sorted list with x put at its place (the keys are pairwise different:
\* the string is part of the key)
SortedInsert(seq, x) ==
    LET k == Cardinality({i \in DOMAIN seq : KeyLess(seq[i], x)})
    IN  SubSeq(seq, 1, k) \o <<x>> \o SubSeq(seq, k + 1, Len(seq))

\* sorted(list(final_operator_set), key=...)
RECURSIVE Sorted(_)
Sorted(S) ==
    IF S = {} THEN <<>>
    ELSE LET x == CHOOSE y \in S : TRUE
         IN  SortedInsert(Sorted(S \ {x}), x)

\* list(reversed(parts))
Reversed(parts) == [i \in DOMAIN parts |-> parts[Len(parts) + 1 - i]]

\* op_i_dag_parts without the reversal
Dagger_noreverse(op_i_str) == Split(op_i_str)

\* op_i_dag_parts
Dagger(op_i_str) == Reversed(Split(op_i_str))

\* the cell (i, j) of the moment matrix
Cell(op_i_str, op_j_str) ==
    simplify_product_advanced(Join(Dagger(op_i_str) \o Split(op_j_str), Space))

MomentMatrix(basis) ==
    [i \in DOMAIN basis |-> [j \in DOMAIN basis |-> Cell(basis[i], basis[j])]]

\* final_operator_set after the terms from position i on
RECURSIVE FinalSet(_, _, _, _)
FinalSet(base, ts, i, set) ==
    IF i > Len(ts) THEN set
    ELSE FinalSet(base, ts, i + 1, set \cup TermContribution(base, ts[i]))

\* the returned pair, for a level_str none of whose terms makes int() raise
npa_hierarchy_intermediate(base, spec) ==
    LET basis == Sorted(FinalSet(base, ParseTerms(spec), 1, {}))
    IN  <<basis, MomentMatrix(basis)>>

-----------------------------------------------------------------------------
(* Inputs *)

Op(party, index) == <<party, index>>

SeqsUpTo(S, n) == UNION {[1..k -> S] : k \in 0..n}

\* tokens of the words given to simplify_product_advanced
WordTokens == {Op("A", "1"), Op("A", "2"), Op("B", "1"), Op("C", "1"), IdStr}

\* operators of one party
PartyOps == {Op("A", "1"), Op("A", "2"), Op("A", "3")}

\* base operators of the lists given to generate_level_n_set
BaseOps == {Op("A", "1"), Op("A", "2"), Op("B", "1")}

\* str(n) of a one-digit number
DigitChar(n) ==
    CASE n = 0 -> "0" [] n = 1 -> "1" [] n = 2 -> "2" [] n = 3 -> "3" [] n = 4 -> "4"

\* [f"{party}{i+1}" for i in range(n)]
SettingsOps(party, n) == [i \in 1..n |-> Op(party, DigitChar(i))]

\* the terms of the level specs: integer levels, party-letter patterns (the
\* empty one too), patterns with a letter of no party, and a digit that is
\* not decimal
IntTerms == {<<DigitChar(n)>> : n \in 0..MaxIntTerm}
PatternTerms == {<<>>, <<"A", "B">>, <<"B", "A">>, <<"A", "A", "B">>}
UnknownTerms == {<<"Z">>, <<"A", "Z">>}
Terms == IntTerms \cup PatternTerms \cup UnknownTerms \cup {<<SuperscriptTwo>>}

\* the terms of a level spec are joined by '+' with a space on either side,
\* which term.strip() has to remove
Separator == <<" ", "+", " ">>

NoResult == <<"?">>

\* the variables of the functions a specification does not run
IdleReduce ==
    word = <<>> /\ product_str = <<>> /\ result = NoResult /\ ncalls = 0
IdleCancel ==
    /\ op_list0 = <<>> /\ op_list = <<>> /\ simplified = FALSE
    /\ cur = <<>> /\ nsteps = 0
IdleLevel ==
    /\ level = 0 /\ operator_set = {} /\ current_level_products = {}
    /\ round = 0 /\ lpc = "idle"
IdleBuild ==
    /\ level_str = <<>> /\ terms = <<>> /\ term_idx = 0
    /\ final_operator_set = {} /\ sorted_operator_set = <<>>
    /\ moment_matrix_symbolic = <<>> /\ bpc = "idle"

-----------------------------------------------------------------------------
(* SpecReduce: simplify_product_advanced applied to a word, then to its result *)

InitReduce ==
    /\ word \in SeqsUpTo(WordTokens, MaxWordLen)
    /\ product_str = Join(word, Space)
    /\ result = NoResult
    /\ ncalls = 0
    /\ base_operators = <<>>
    /\ IdleCancel /\ IdleLevel /\ IdleBuild

Simplify ==
    /\ ncalls = 0
    /\ result' = simplify_product_advanced(product_str)
    /\ ncalls' = 1
    /\ UNCHANGED <<word, product_str>>
    /\ UNCHANGED <<varsCancel, base_operators, varsLevel, varsBuild>>

Resimplify ==
    /\ ncalls = 1
    /\ product_str' = result
    /\ result' = simplify_product_advanced(result)
    /\ ncalls' = 2
    /\ UNCHANGED word
    /\ UNCHANGED <<varsCancel, base_operators, varsLevel, varsBuild>>

NextReduce == Simplify \/ Resimplify

SpecReduce == InitReduce /\ [][NextReduce]_vars

-----------------------------------------------------------------------------
(* SpecCancel: the cancellation loop of one party beside free cancellation *)

InitCancel ==
    /\ op_list0 \in SeqsUpTo(PartyOps, MaxPartyLen)
    /\ op_list = op_list0
    /\ simplified = TRUE
    /\ cur = op_list0
    /\ nsteps = 0
    /\ base_operators = <<>>
    /\ IdleReduce /\ IdleLevel /\ IdleBuild

\* one iteration of `while simplified:` that does not break
LoopPass ==
    /\ simplified
    /\ ~(Len(op_list) < 2)
    /\ op_list' = Pass(op_list)
    /\ simplified' = (Len(Pass(op_list)) # Len(op_list))
    /\ UNCHANGED <<op_list0, cur, nsteps>>
    /\ UNCHANGED <<varsReduce, base_operators, varsLevel, varsBuild>>

\* `if len(op_list) < 2: break`
LoopBreak ==
    /\ simplified
    /\ Len(op_list) < 2
    /\ simplified' = FALSE
    /\ UNCHANGED <<op_list0, op_list, cur, nsteps>>
    /\ UNCHANGED <<varsReduce, base_operators, varsLevel, varsBuild>>

\* the removal of one directly adjacent equal pair, anywhere in the list
CancelAt(i) ==
    /\ i \in 1..(Len(cur) - 1)
    /\ cur[i] = cur[i + 1]
    /\ cur' = SubSeq(cur, 1, i - 1) \o SubSeq(cur, i + 2, Len(cur))
    /\ nsteps' = nsteps + 1
    /\ UNCHANGED <<op_list0, op_list, simplified>>
    /\ UNCHANGED <<varsReduce, base_operators, varsLevel, varsBuild>>

Cancel == \E i \in DOMAIN cur : CancelAt(i)

NextCancel == LoopPass \/ LoopBreak \/ Cancel

SpecCancel == InitCancel /\ [][NextCancel]_vars

-----------------------------------------------------------------------------
(* SpecLevel: generate_level_n_set, one round of its loop at a time *)

InitLevel ==
    /\ base_operators \in SeqsUpTo(BaseOps, MaxBase)
    /\ level \in 0..MaxLevel
    /\ operator_set = {}
    /\ current_level_products = {}
    /\ round = 0
    /\ lpc = "call"
    /\ IdleReduce /\ IdleCancel /\ IdleBuild

\* `if level == 0: return {identity}`
LevelZero ==
    /\ lpc = "call"
    /\ level = 0
    /\ operator_set' = {IdStr}
    /\ lpc' = "done"
    /\ UNCHANGED <<level, current_level_products, round>>
    /\ UNCHANGED <<varsReduce, varsCancel, base_operators, varsBuild>>

LevelInit ==
    /\ lpc = "call"
    /\ level # 0
    /\ operator_set' = {IdStr} \cup Range(base_operators)
    /\ current_level_products' = Range(base_operators)
    /\ round' = 1
    /\ lpc' = "loop"
    /\ UNCHANGED level
    /\ UNCHANGED <<varsReduce, varsCancel, base_operators, varsBuild>>

LevelRound ==
    /\ lpc = "loop"
    /\ InRange(round, level)
    /\ LET next_level_products ==
               NextLevelProducts(current_level_products, base_operators)
       IN  /\ operator_set' = UpdateOperatorSet(operator_set, next_level_products)
           /\ current_level_products' = next_level_products
    /\ round' = round + 1
    /\ UNCHANGED <<level, lpc>>
    /\ UNCHANGED <<varsReduce, varsCancel, base_operators, varsBuild>>

LevelReturn ==
    /\ lpc = "loop"
    /\ ~InRange(round, level)
    /\ lpc' = "done"
    /\ UNCHANGED <<level, operator_set, current_level_products, round>>
    /\ UNCHANGED <<varsReduce, varsCancel, base_operators, varsBuild>>

NextLevel == LevelZero \/ LevelInit \/ LevelRound \/ LevelReturn

SpecLevel == InitLevel /\ [][NextLevel]_vars

-----------------------------------------------------------------------------
(* SpecBuild: npa_hierarchy_intermediate *)

InitBuild ==
    /\ \E num_a_settings \in 0..MaxSettings, num_b_settings \in 0..MaxSettings :
           base_operators = SettingsOps("A", num_a_settings)
                                \o SettingsOps("B", num_b_settings)
    /\ \E ts \in SeqsUpTo(Terms, 2) : level_str = Join(ts, Separator)
    /\ terms = <<>>
    /\ term_idx = 0
    /\ final_operator_set = {}
    /\ sorted_operator_set = <<>>
    /\ moment_matrix_symbolic = <<>>
    /\ bpc = "call"
    /\ IdleReduce /\ IdleCancel /\ IdleLevel

\* `terms = [term.strip() for term in level_str.split('+')]`
BuildParse ==
    /\ bpc = "call"
    /\ terms' = ParseTerms(level_str)
    /\ term_idx' = 1
    /\ bpc' = "terms"
    /\ UNCHANGED <<level_str, final_operator_set, sorted_operator_set,
                   moment_matrix_symbolic>>
    /\ UNCHANGED <<varsReduce, varsCancel, base_operators, varsLevel>>

\* one iteration of `for term in terms`
BuildTerm ==
    /\ bpc = "terms"
    /\ term_idx <= Len(terms)
    /\ ~(IsDigit(terms[term_idx]) /\ IntRaises(terms[term_idx]))
    /\ final_operator_set' =
           final_operator_set \cup TermContribution(base_operators, terms[term_idx])
    /\ term_idx' = term_idx + 1
    /\ UNCHANGED <<level_str, terms, sorted_operator_set, moment_matrix_symbolic, bpc>>
    /\ UNCHANGED <<varsReduce, varsCancel, base_operators, varsLevel>>

\* `level = int(term)` raises ValueError, which nothing in the module catches
BuildRaise ==
    /\ bpc = "terms"
    /\ term_idx <= Len(terms)
    /\ IsDigit(terms[term_idx]) /\ IntRaises(terms[term_idx])
    /\ bpc' = "raised"
    /\ UNCHANGED <<level_str, terms, term_idx, final_operator_set,
                   sorted_operator_set, moment_matrix_symbolic>>
    /\ UNCHANGED <<varsReduce, varsCancel, base_operators, varsLevel>>

BuildSort ==
    /\ bpc = "terms"
    /\ term_idx > Len(terms)
    /\ sorted_operator_set' = Sorted(final_operator_set)
    /\ bpc' = "fill"
    /\ UNCHANGED <<level_str, terms, term_idx, final_operator_set,
                   moment_matrix_symbolic>>
    /\ UNCHANGED <<varsReduce, varsCancel, base_operators, varsLevel>>

\* the two nested loops over range(n), and the return
BuildFill ==
    /\ bpc = "fill"
    /\ moment_matrix_symbolic' = MomentMatrix(sorted_operator_set)
    /\ bpc' = "done"
    /\ UNCHANGED <<level_str, terms, term_idx, final_operator_set,
                   sorted_operator_set>>
    /\ UNCHANGED <<varsReduce, varsCancel, base_operators, varsLevel>>

NextBuild == BuildParse \/ BuildTerm \/ BuildRaise \/ BuildSort \/ BuildFill

SpecBuild == InitBuild /\ [][NextBuild]_vars

-----------------------------------------------------------------------------
(* Properties of simplify_product_advanced, under SpecReduce *)

\* C1: simplify_product_advanced is idempotent: called on the value it
\* returned for a word (any mix of parties, repeated operators and "Id"
\* tokens), it returns that value again.
C1_Idempotent == ncalls = 2 => result = product_str

\* a second call was made on the result of a word with an "Id" token in it
\* that lost operators to cancellation and kept some
C1_Witness ==
    /\ ncalls = 2
    /\ \E i \in DOMAIN word : word[i] = IdStr
    /\ product_str # IdStr
    /\ Len(Split(product_str)) + 2 < Len(word)

\* word without its positions i and j
Without(w, i, j) ==
    SubSeq(w, 1, i - 1) \o SubSeq(w, i + 1, j - 1) \o SubSeq(w, j + 1, Len(w))

\* positions i < j hold the same operator and only operators of other parties
\* lie between them
SeparatedPair(w, i, j) ==
    /\ i < j
    /\ w[i] = w[j]
    /\ w[i] # IdStr
    /\ \A k \in (i + 1)..(j - 1) : w[k] # IdStr /\ w[k][1] # w[i][1]

\* C3: every operator is an involution, also across operators of other
\* parties: the result for u O f O v, f made of operators of parties other than
\* O's, is the result for u f v; and the result for O O is "Id".
C3_Involution ==
    ncalls = 1 =>
        /\ \A i, j \in DOMAIN word :
               SeparatedPair(word, i, j) =>
                   result = simplify_product_advanced(Join(Without(word, i, j), Space))
        /\ (Len(word) = 2 /\ word[1] = word[2] /\ word[1] # IdStr) => result = IdStr

\* the word is u O f O v with u, f non-empty and something is left of it
C3_Witness ==
    /\ ncalls = 1
    /\ \E i, j \in DOMAIN word :
           SeparatedPair(word, i, j) /\ 1 < i /\ i + 1 < j
    /\ result # IdStr

\* w with its positions i and i+1 exchanged
Swapped(w, i) == [k \in DOMAIN w |-> IF k = i THEN w[i + 1] ELSE IF k = i + 1 THEN w[i] ELSE w[k]]

\* positions i, i+1 hold operators of different parties
CrossPartyPair(w, i) ==
    /\ i + 1 \in DOMAIN w
    /\ w[i] # IdStr /\ w[i + 1] # IdStr
    /\ w[i][1] # w[i + 1][1]

\* C4: operators of different parties commute: the result for u X Y v, X and Y
\* of different parties, is the result for u Y X v.
C4_Commute ==
    ncalls = 1 =>
        \A i \in DOMAIN word :
            CrossPartyPair(word, i) =>
                result = simplify_product_advanced(Join(Swapped(word, i), Space))

\* the word has a cross-party pair in descending party order, after a
\* non-empty u, and the call reordered it
C4_Witness ==
    /\ ncalls = 1
    /\ \E i \in DOMAIN word :
           /\ CrossPartyPair(word, i)
           /\ 1 < i
           /\ CharCode(word[i + 1][1]) < CharCode(word[i][1])
    /\ result # Join(word, Space)
    /\ result # IdStr

-----------------------------------------------------------------------------
(* Properties of the cancellation loop, under SpecCancel *)

NoAdjacentPair(ops) == \A i \in 1..(Len(ops) - 1) : ops[i] # ops[i + 1]

\* C9: same-party cancellation terminates and is confluent: every single
\* cancellation removes two operators (so at most half the list's length of
\* them can be made), every list no cancellation applies to any more is the one
\* the finished loop of simplify_product_advanced holds, and that list has no
\* adjacent equal pair and is what the loop, run as a whole, returns.
C9_Confluent ==
    /\ 2 * nsteps + Len(cur) = Len(op_list0)
    /\ (~simplified /\ NoAdjacentPair(cur)) => cur = op_list
    /\ ~simplified => NoAdjacentPair(op_list) /\ op_list = SimplifyParty(op_list0)

\* a list whose first three operators are equal, so that two different first
\* cancellations exist, fully cancelled in two steps with the loop finished
C9_Witness ==
    /\ ~simplified
    /\ Len(op_list0) = MaxPartyLen
    /\ op_list0[1] = op_list0[2] /\ op_list0[2] = op_list0[3]
    /\ nsteps = 2
    /\ NoAdjacentPair(cur)

-----------------------------------------------------------------------------
(* Properties of generate_level_n_set, under SpecLevel *)

\* C6: level monotonicity: the set returned for level n is a subset of the
\* set returned for level n+1, for every list of base operators.
C6_Monotone ==
    lpc = "done" => operator_set \subseteq generate_level_n_set(base_operators, level + 1)

\* a call for a level of 2 or more, of at least two base operators, returned a
\* set that level+1 properly extends
C6_Witness ==
    /\ lpc = "done"
    /\ level > 1
    /\ Len(base_operators) > 1
    /\ operator_set # generate_level_n_set(base_operators, level + 1)

\* the number of operators of a word, "Id" counting as none
NumOperators(s) == IF s = IdStr THEN 0 ELSE Len(Split(s))

\* C7: the set returned for level n is exactly the set of the results of
\* simplify_product_advanced for the products of at most n base operators; so
\* every word in it has at most n operators.
C7_ExactlyProducts ==
    lpc = "done" =>
        /\ operator_set =
               {simplify_product_advanced(Join(w, Space)) :
                    w \in SeqsUpTo(Range(base_operators), level)}
        /\ \A s \in operator_set : NumOperators(s) <= level
        /\ operator_set = generate_level_n_set(base_operators, level)

\* a call with rounds returned, and its last frontier holds a word reached in
\* an earlier round (a shorter one) beside a word of full length
C7_Witness ==
    /\ lpc = "done"
    /\ level > 2
    /\ \E s \in current_level_products : NumOperators(s) + 1 < level
    /\ \E s \in current_level_products : NumOperators(s) = level

-----------------------------------------------------------------------------
(* Properties of npa_hierarchy_intermediate, under SpecBuild *)

Basis == sorted_operator_set
Matrix == moment_matrix_symbolic

\* C2: dagger symmetry: for all i, j of the returned basis, simplifying the
\* reversed token sequence of matrix[i][j] gives matrix[j][i].
C2_DaggerSymmetry ==
    bpc = "done" =>
        \A i, j \in DOMAIN Basis :
            simplify_product_advanced(Join(Reversed(Split(Matrix[i][j])), Space))
                = Matrix[j][i]

\* a returned matrix with a cell of three operators or more that differs from
\* its transposed cell
C2_Witness ==
    /\ bpc = "done"
    /\ \E i, j \in DOMAIN Basis :
           /\ NumOperators(Matrix[i][j]) > 2
           /\ Matrix[i][j] # Matrix[j][i]

RECURSIVE LastPlus(_)
LastPlus(s) ==
    IF s = <<>> THEN 0 ELSE IF s[Len(s)] = "+" THEN Len(s)
    ELSE LastPlus(SubSeq(s, 1, Len(s) - 1))

BeforeLastPlus(s) == SubSeq(s, 1, LastPlus(s) - 1)
AfterLastPlus(s) == SubSeq(s, LastPlus(s) + 1, Len(s))

\* term := integer | letter+, each letter a party of the base operators
WellFormedTerm(base, term) ==
    /\ term # <<>>
    /\ \/ \A i \in DOMAIN term : term[i] \in DecimalChars
       \/ \A i \in DOMAIN term : term[i] \in DOMAIN ByParty(base)

WellFormedSpec(base, spec) ==
    \A i \in DOMAIN ParseTerms(spec) : WellFormedTerm(base, ParseTerms(spec)[i])

\* a pattern term with a letter that has no pool among the base operators
BadTerm(base, term) ==
    /\ ~IsDigit(term)
    /\ \E i \in DOMAIN term : term[i] \notin DOMAIN ByParty(base)

\* the level spec is S + "+" + T, S well-formed and T a bad term
SpecPlusBadTerm ==
    /\ LastPlus(level_str) > 0
    /\ WellFormedSpec(base_operators, BeforeLastPlus(level_str))
    /\ BadTerm(base_operators, Strip(AfterLastPlus(level_str)))

\* C8: a pattern term T with a letter that has no pool makes
\* generate_string_term_set return the empty set, and the build of S + "+" + T
\* returns what the build of S returns, for every well-formed S.
C8_BadTermAbsorbed ==
    (bpc = "done" /\ SpecPlusBadTerm) =>
        /\ generate_string_term_set(ByParty(base_operators),
                                    Strip(AfterLastPlus(level_str))) = {}
        /\ <<Basis, Matrix>> =
               npa_hierarchy_intermediate(base_operators, BeforeLastPlus(level_str))

\* a build of S + "+" + T returned, T beginning with a letter that has a pool
\* and the basis holding more than the identity
C8_Witness ==
    /\ bpc = "done"
    /\ SpecPlusBadTerm
    /\ Strip(AfterLastPlus(level_str))[1] \in DOMAIN ByParty(base_operators)
    /\ Len(Basis) > 4

\* C10: every diagonal cell of the returned matrix is "Id".
C10_DiagonalId ==
    bpc = "done" => \A i \in DOMAIN Basis : Matrix[i][i] = IdStr

\* a returned basis with a word of three operators of two parties
C10_Witness ==
    /\ bpc = "done"
    /\ \E i \in DOMAIN Basis :
           /\ NumOperators(Basis[i]) = 3
           /\ Split(Basis[i])[1][1] # Split(Basis[i])[3][1]

=============================================================================
